---- MODULE Spec2Model ----
(***************************************************************************)
(* State-machine model of RepositoryStateManager (the reconciliation       *)
(* engine of the Perforce source-control integration) together with the    *)
(* pure parsing helpers it calls.  One action per handler: a call of       *)
(* updateState(), the continuation that runs when an executor call         *)
(* returns, and dispose().                                                 *)
(***************************************************************************)
EXTENDS Integers, Sequences, FiniteSets, TLC

\* ------------------------------------------------------------------ bounds
\* Largest number of records in one tagged array returned by the executor.
MaxRecs == 2

\* Largest number of lines in the output of one `p4 where` call.
MaxLines == 2

\* ------------------------------------------------------- JavaScript values
\* The value `undefined` of an absent field (distinct from every string).
Undefined == "<undefined>"

\* The value `null` (p4where's "no local path").
Null == "<null>"

\* A test against undefined only: null and the empty string pass.
TruthyUnlessUndefined(x) == x # Undefined

\* JS truthiness of a string, null or undefined value.
Truthy(x) == x # Undefined /\ x # Null /\ x # ""

\* a ?? b
Coalesce(a, b) == IF a \in {Undefined, Null} THEN b ELSE a

\* a || b
OrElse(a, b) == IF Truthy(a) THEN a ELSE b

\* `${x}` : template-literal conversion of a string-or-undefined value.
TemplateStr(x) == IF x = Undefined THEN "undefined" ELSE x

\* record.rev ? `#${record.rev}` : undefined
RevMarker(r) == IF Truthy(r) THEN "#" \o r ELSE Undefined

\* vscode.Uri.parse(s).toString(): parse cuts s at its first colon into
\* scheme and path, toString joins the two with a colon; every string the
\* parsers pass in starts with a scheme, so the key is the string itself.
UriParse(s) == s

\* vscode.Uri.file(p).toString()
UriFile(p) == "file://" \o p

\* The options the manager was constructed with.
P4USER == "me"
P4CLIENT == "ws"

\* ------------------------------------------------------------ map helpers
\* A JS Map is a sequence of [key, val] entries in insertion order.
MapKeys(m) == {m[i].key : i \in 1..Len(m)}

MapHas(m, k) == \E i \in 1..Len(m) : m[i].key = k

MapGet(m, k) == m[CHOOSE i \in 1..Len(m) : m[i].key = k].val

\* Map.set: an existing key keeps its position, a new key is appended.
MapSet(m, k, v) ==
    IF MapHas(m, k)
    THEN [i \in 1..Len(m) |-> IF m[i].key = k THEN [key |-> k, val |-> v] ELSE m[i]]
    ELSE Append(m, [key |-> k, val |-> v])

\* A delete that was left out.
MapDeleteKeeps(m, k) == m

MapDelete(m, k) == SelectSeq(m, LAMBDA e : e.key # k)

MapValues(m) == [i \in 1..Len(m) |-> m[i].val]

SeqRange(s) == {s[i] : i \in 1..Len(s)}

\* ------------------------------------------------------------ P4Result
\* What execute() hands back: it throws, or returns stdout/stderr and, for
\* a tagged call whose stdout could be decoded, parsedOutput.
NoParsed == [tag |-> "undefined", items |-> <<>>]
\* A decoded value that is one object instead of an array of them.
ScalarParsed(record) == [tag |-> "object", items |-> <<record>>]
ArrayParsed(items) == [tag |-> "array", items |-> items]

Thrown == [kind |-> "throw", stdout |-> "", stderr |-> "connect failed", parsedOutput |-> NoParsed]
Returned(out, err, parsed) == [kind |-> "return", stdout |-> out, stderr |-> err, parsedOutput |-> parsed]

\* ------------------------------------------------------------ parsers
\* A check that lets every decoded value through.
IsSequenceAlways(p4Data) == TRUE

\* Array.isArray(p4Data)
IsSequence(p4Data) == p4Data.tag = "array"

\* RepositoryStateManager.parseOpenedOutput
parseOpenedOutput(p4Data) ==
    IF ~IsSequence(p4Data)
    THEN [threw |-> TRUE, value |-> <<>>]
    ELSE LET ok(record) == /\ record.obj
                           /\ Truthy(record.depotFile)
                           /\ Truthy(record.action)
                           /\ Truthy(record.clientFile)
             kept == SelectSeq(p4Data.items, ok)
             mk(record) ==
                 [uri |-> UriParse("perforce:" \o TemplateStr(record.depotPath)),
                  depotPath |-> record.depotFile,
                  clientPath |-> record.clientFile,
                  localPath |-> Undefined,
                  status |-> record.action,
                  action |-> record.action,
                  changelist |-> Coalesce(record.change, "default"),
                  revision |-> RevMarker(record.rev),
                  headRevision |-> RevMarker(record.headRev),
                  haveRevision |-> RevMarker(record.haveRev),
                  type |-> record.type,
                  diffStatus |-> Undefined,
                  isShelved |-> Undefined,
                  shelvedInChangelist |-> Undefined,
                  user |-> record.user,
                  client |-> record.client]
         IN [threw |-> FALSE, value |-> [i \in 1..Len(kept) |-> mk(kept[i])]]

\* A test for 'resolve' in lower case, which none of the statuses contains.
IncludesResolveLowerCase(s) == FALSE

\* String.prototype.includes('Resolve') on the status strings p4 status emits.
IncludesResolve(s) == s \in {"openNeedsResolve", "notOpened+needsResolve", "needsResolve"}

\* RepositoryStateManager.parseStatusOutput
parseStatusOutput(p4Data) ==
    IF ~IsSequence(p4Data)
    THEN [threw |-> TRUE, value |-> <<>>]
    ELSE LET ok(record) == /\ record.obj
                           /\ (Truthy(record.clientFile) \/ Truthy(record.depotFile))
             kept == SelectSeq(p4Data.items, ok)
             mk(record) ==
                 LET pathForUri == OrElse(record.clientFile, record.depotFile)
                     effectiveStatus == Coalesce(record.status, "unknown")
                     effectiveAction ==
                         IF effectiveStatus = "needsDelete" THEN "delete-local"
                         ELSE IF effectiveStatus = "needsAdd" THEN "add-local"
                         ELSE IF effectiveStatus = "modifiedNotOpened" THEN "modify-local"
                         ELSE Coalesce(record.action, "unknown")
                 IN [uri |-> UriParse("perforce:" \o pathForUri),
                     depotPath |-> Coalesce(record.depotFile, ""),
                     clientPath |-> Coalesce(record.clientFile, ""),
                     localPath |-> Undefined,
                     status |-> effectiveStatus,
                     action |-> effectiveAction,
                     changelist |-> Coalesce(record.change, Coalesce(record.otherChange, "default")),
                     revision |-> RevMarker(record.rev),
                     headRevision |-> RevMarker(record.headRev),
                     haveRevision |-> RevMarker(record.haveRev),
                     type |-> record.type,
                     diffStatus |-> IF IncludesResolve(effectiveStatus) THEN "unresolved" ELSE Undefined,
                     isShelved |-> IF record.isShelved = "1" THEN "true" ELSE "false",
                     shelvedInChangelist |-> Undefined,
                     user |-> Coalesce(record.user, record.otherUser),
                     client |-> Coalesce(record.client, record.otherClient)]
         IN [threw |-> FALSE, value |-> [i \in 1..Len(kept) |-> mk(kept[i])]]

\* String.prototype.trim() on the descriptions the fixtures use.
Trim(s) == IF s = "seven " THEN "seven" ELSE s

\* changeType?.includes('restricted')
IncludesRestricted(s) ==
    IF s = Undefined THEN Undefined
    ELSE IF s \in {"restricted", "public restricted"} THEN "true" ELSE "false"

\* new Date(parseInt(time) * 1000), or new Date() when there is no usable time.
ChangeDate(time) == IF Truthy(time) /\ time # "invalid-time" THEN time ELSE "now"

\* RepositoryStateManager.parseChangesOutput
parseChangesOutput(p4Data) ==
    IF ~IsSequence(p4Data)
    THEN [threw |-> TRUE, value |-> <<>>]
    ELSE LET ok(record) == /\ record.obj
                           /\ Truthy(record.change)
                           /\ Truthy(record.desc)
             kept == SelectSeq(p4Data.items, ok)
             mk(record) ==
                 [id |-> record.change,
                  description |-> Trim(record.desc),
                  user |-> Coalesce(record.user, "unknown"),
                  client |-> Coalesce(record.client, "unknown"),
                  status |-> IF record.status \in {"pending", "submitted", "shelved"}
                             THEN record.status ELSE "pending",
                  date |-> ChangeDate(record.time),
                  files |-> <<>>,
                  jobs |-> Undefined,
                  hasShelvedFiles |-> IF record.shelved = "1" THEN "true" ELSE "false",
                  isRestricted |-> IncludesRestricted(record.changeType)]
         IN [threw |-> FALSE, value |-> [i \in 1..Len(kept) |-> mk(kept[i])]]

\* record[`depotFile${i}`] and its sibling indexed fields: the record holds
\* them as `entries`, index i at position i+1; a missing index is undefined.
Indexed(record, i, field) ==
    IF i + 1 <= Len(record.entries) THEN record.entries[i + 1][field] ELSE Undefined

\* A loop that runs over every index the record carries, gaps included.
DescribeCountEveryIndex(record, i) == Len(record.entries)

\* The number of leading indexes whose depotFile<i> is truthy (the while loop).
RECURSIVE DescribeCount(_, _)
DescribeCount(record, i) ==
    IF Truthy(Indexed(record, i, "depotFile")) THEN DescribeCount(record, i + 1) ELSE i

\* A describe normalizer that rejects a malformed value by throwing, as the
\* other three normalizers do.
parseDescribeOutputRejecting(p4Data, changelistId) ==
    IF p4Data.tag # "array" \/ Len(p4Data.items) = 0 \/ ~p4Data.items[1].obj
    THEN [threw |-> TRUE, value |-> <<>>]
    ELSE [threw |-> FALSE, value |-> <<>>]

\* RepositoryStateManager.parseDescribeOutput
parseDescribeOutput(p4Data, changelistId) ==
    IF \/ ~IsSequence(p4Data)
       \/ Len(p4Data.items) = 0
       \/ ~p4Data.items[1].obj
    THEN [threw |-> FALSE, value |-> <<>>]
    ELSE LET record == p4Data.items[1]
             n == DescribeCount(record, 0)
             mk(i) ==
                 [uri |-> UriParse("perforce-shelved:" \o Indexed(record, i, "depotFile")),
                  depotPath |-> Indexed(record, i, "depotFile"),
                  clientPath |-> Coalesce(Indexed(record, i, "clientFile"), ""),
                  localPath |-> Undefined,
                  status |-> Indexed(record, i, "action"),
                  action |-> Indexed(record, i, "action"),
                  changelist |-> changelistId,
                  revision |-> RevMarker(Indexed(record, i, "rev")),
                  headRevision |-> Undefined,
                  haveRevision |-> Undefined,
                  type |-> Indexed(record, i, "type"),
                  diffStatus |-> Undefined,
                  isShelved |-> "true",
                  shelvedInChangelist |-> changelistId,
                  user |-> Undefined,
                  client |-> Undefined]
         IN [threw |-> FALSE, value |-> [i \in 1..n |-> mk(i - 1)]]

\* A processP4Result that hands a lone object to the record loop as a
\* one-element list instead of rejecting it.
processOpenedUnchecked(result) ==
    IF result.parsedOutput.tag # "undefined"
    THEN parseOpenedOutput(ArrayParsed(result.parsedOutput.items)).value
    ELSE <<>>

\* RepositoryStateManager.processP4Result, one instance per parse method.
processOpened(result) ==
    IF result.parsedOutput.tag # "undefined"
    THEN LET r == parseOpenedOutput(result.parsedOutput)
         IN IF r.threw THEN <<>> ELSE r.value
    ELSE <<>>

processStatus(result) ==
    IF result.parsedOutput.tag # "undefined"
    THEN LET r == parseStatusOutput(result.parsedOutput)
         IN IF r.threw THEN <<>> ELSE r.value
    ELSE <<>>

processChanges(result) ==
    IF result.parsedOutput.tag # "undefined"
    THEN LET r == parseChangesOutput(result.parsedOutput)
         IN IF r.threw THEN <<>> ELSE r.value
    ELSE <<>>

processDescribe(result, changelistId) ==
    IF result.parsedOutput.tag # "undefined"
    THEN LET r == parseDescribeOutput(result.parsedOutput, changelistId)
         IN IF r.threw THEN <<>> ELSE r.value
    ELSE <<>>

\* ------------------------------------------------------------ p4where
\* parts.slice(from).join(" ")
RECURSIVE JoinFrom(_, _)
JoinFrom(parts, from) ==
    IF from > Len(parts) THEN ""
    ELSE IF from = Len(parts) THEN parts[from]
    ELSE parts[from] \o " " \o JoinFrom(parts, from + 1)

\* String.prototype.startsWith("-") on the local paths the fixtures use.
StartsWithDash(s) == s \in {"-", "-unmapped"}

\* A scan that takes the first line as the mapping, whatever it names.
WhereScanFirstLine(lines, i, depotOrClientPath) ==
    IF i > Len(lines) THEN Null
    ELSE IF Len(lines[i]) >= 3 THEN JoinFrom(lines[i], 3)
    ELSE Null

\* The for-loop of p4where over the output lines, from line i on; a line is
\* the sequence of its space-separated parts.
RECURSIVE WhereScan(_, _, _)
WhereScan(lines, i, depotOrClientPath) ==
    IF i > Len(lines) THEN Null
    ELSE LET parts == lines[i]
             localPath == JoinFrom(parts, 3)
         IN IF /\ Len(parts) >= 3
               /\ (parts[1] = depotOrClientPath \/ parts[2] = depotOrClientPath)
               /\ Truthy(localPath)
               /\ localPath # "/dev/null"
               /\ ~StartsWithDash(localPath)
            THEN localPath
            ELSE WhereScan(lines, i + 1, depotOrClientPath)

\* stderr.includes("not in client view") || stderr.includes("no such file(s)")
NotMapped(stderr) == stderr \in {"not in client view", "no such file(s)"}

\* fileCommands.p4where applied to what execute('where', [path]) did; the
\* stdout of a where call is the sequence of its lines.
p4where(depotOrClientPath, result) ==
    IF ~Truthy(depotOrClientPath) THEN Null
    ELSE IF result.kind = "throw" THEN Null
    ELSE IF Truthy(result.stderr) /\ NotMapped(result.stderr) THEN Null
    ELSE IF Len(result.lines) > 0 THEN WhereScan(result.lines, 1, depotOrClientPath)
    ELSE Null

\* ------------------------------------------------------------ fixtures
\* The records the executor can answer with.  Every field the parsers read
\* is present; Undefined marks a field the tool did not send.
OpenedRecord(depotFile, clientFile, action, change, type, user) ==
    [obj |-> TRUE, depotFile |-> depotFile, clientFile |-> clientFile,
     action |-> action, change |-> change, type |-> type, user |-> user,
     client |-> Undefined, rev |-> "1", headRev |-> Undefined,
     haveRev |-> Undefined, depotPath |-> Undefined]

OpenedPool ==
    << OpenedRecord("//d/a", "/ws/a", "edit", "5", "text", "u1"),
       OpenedRecord("//d/b", "/ws/b", "add", Undefined, Undefined, Undefined),
       OpenedRecord("//d/c", Undefined, "edit", "5", "text", "u1") >>

StatusRecord(depotFile, clientFile, status, action, change, type) ==
    [obj |-> TRUE, depotFile |-> depotFile, clientFile |-> clientFile,
     status |-> status, action |-> action, change |-> change,
     otherChange |-> Undefined, type |-> type, user |-> Undefined,
     otherUser |-> Undefined, client |-> Undefined, otherClient |-> Undefined,
     rev |-> Undefined, headRev |-> "3", haveRev |-> Undefined,
     isShelved |-> Undefined]

StatusPool ==
    << StatusRecord("//d/a", "/ws/a", "openNeedsResolve", "integrate", Undefined, "binary"),
       StatusRecord("//d/a", "/ws/a", "modifiedNotOpened", Undefined, Undefined, Undefined) >>

ChangesRecord(change, desc, shelved) ==
    [obj |-> TRUE, change |-> change, desc |-> desc, time |-> "100",
     user |-> "u1", client |-> Undefined, status |-> "pending",
     shelved |-> shelved, changeType |-> Undefined]

ChangesPool ==
    << ChangesRecord("5", "five", "1"),
       ChangesRecord("7", "seven ", Undefined) >>

\* The sub-sequences of `pool` (records in the tool's output order) that
\* keep at most `n` records.
RECURSIVE SubSeqs(_, _)
SubSeqs(pool, n) ==
    IF Len(pool) = 0 \/ n = 0 THEN {<<>>}
    ELSE LET rest == [i \in 1..(Len(pool) - 1) |-> pool[i + 1]]
         IN SubSeqs(rest, n) \cup {<<pool[1]>> \o s : s \in SubSeqs(rest, n - 1)}

\* What a tagged primary query can come back with.
TaggedResults(pool) ==
    {Thrown, Returned("", "", NoParsed), Returned("x", "", ScalarParsed(pool[1]))}
        \cup {Returned("x", "", ArrayParsed(s)) : s \in SubSeqs(pool, MaxRecs)}

DescribeEntry(depotFile, clientFile) ==
    [depotFile |-> depotFile, action |-> "edit", type |-> "text",
     rev |-> "2", clientFile |-> clientFile]

DescribeResults ==
    {Thrown,
     Returned("x", "", ArrayParsed(<< [obj |-> TRUE, entries |-> <<DescribeEntry("//d/a", Undefined)>>] >>)),
     Returned("x", "", ArrayParsed(<< [obj |-> TRUE, entries |-> <<DescribeEntry("//d/b", "/ws/b")>>] >>))}

\* The local path the workspace view maps a client path to.
LocalOf(clientPath) == IF clientPath = "/ws/a" THEN "/abs/a" ELSE "/abs/b"

WhereReturned(err, lines) == [kind |-> "return", stdout |-> "", stderr |-> err, lines |-> lines]

WhereResults(clientPath) ==
    {[kind |-> "throw", stdout |-> "", stderr |-> "connect failed", lines |-> <<>>],
     WhereReturned("", << <<"//d/x", clientPath, LocalOf(clientPath)>> >>)}

\* How a response is classified in the call log: the executor threw, it
\* returned an array of records, or it returned nothing a parser accepts.
ResKind(result) ==
    IF result.kind = "throw" THEN "throw"
    ELSE IF result.parsedOutput.tag = "array" THEN "array"
    ELSE "unusable"

\* ------------------------------------------------------------ state
VARIABLES
    files,              \* Map<string, P4File>: entries [key, val] in insertion order
    changelists,        \* Map<string, P4Changelist>; val.files holds the uris of its Files
    isUpdating,         \* the busy flag
    disposed,           \* dispose() was called (the emitter has no listeners left)
    pc,                 \* where the accepted updateState call is suspended
    previousChangeKeys, \* local of updateState
    currentChangeKeys,  \* local of updateState
    openedFiles,        \* local of updateState
    statusFiles,        \* local of updateState
    pendingChanges,     \* local of updateState
    shelvedPromises,    \* local of updateState: one [id, done, value] per describe call
    filesToResolve,     \* local of resolveFileUris
    resolutions,        \* local of resolveFileUris: one [clientPath, done, localPath] per where call
    issued,             \* executor calls of the current cycle, in call order: [cmd, arg, res]
    fired,              \* what a listener reads at each _onDidChange.fire() of the current cycle
    outcome,            \* how the last cycle ended: "none", "running", "completed", "failed"
    startStore,         \* the store when the current cycle was accepted
    droppedCall,        \* the last step was an updateState call that the busy guard dropped
    running,            \* updateState invocations that passed the guard and have not returned
    normalizer,         \* a direct call of one parse method: [fn, p4Data, changelistId]
    normalized          \* what that call did: [done, threw, value]

vars == << files, changelists, isUpdating, disposed, pc, previousChangeKeys,
           currentChangeKeys, openedFiles, statusFiles, pendingChanges,
           shelvedPromises, filesToResolve, resolutions, issued, fired, outcome,
           startStore, droppedCall, running, normalizer, normalized >>

locals == << previousChangeKeys, currentChangeKeys, openedFiles, statusFiles,
             pendingChanges, shelvedPromises, filesToResolve, resolutions >>

\* What a reader of the store sees: the file keys, the changelist ids and,
\* per changelist, the uris in its derived file list.
Snapshot(fs, cls) ==
    [fileKeys |-> MapKeys(fs),
     changeKeys |-> MapKeys(cls),
     assoc |-> UNION {{<<cls[i].key, u>> : u \in SeqRange(cls[i].val.files)} : i \in 1..Len(cls)}]

\* No parse method is being called directly.
NoNormalizer == [fn |-> "none", p4Data |-> NoParsed, changelistId |-> ""]

NotNormalized == [done |-> FALSE, threw |-> FALSE, value |-> <<>>]

\* The manager as its constructor leaves it.
Constructed ==
    /\ files = <<>>
    /\ changelists = <<>>
    /\ isUpdating = FALSE
    /\ disposed = FALSE
    /\ pc = "idle"
    /\ previousChangeKeys = {}
    /\ currentChangeKeys = {}
    /\ openedFiles = <<>>
    /\ statusFiles = <<>>
    /\ pendingChanges = <<>>
    /\ shelvedPromises = <<>>
    /\ filesToResolve = <<>>
    /\ resolutions = <<>>
    /\ issued = <<>>
    /\ fired = <<>>
    /\ outcome = "none"
    /\ startStore = Snapshot(<<>>, <<>>)
    /\ droppedCall = FALSE
    /\ running = 0

Init ==
    /\ Constructed
    /\ normalizer = NoNormalizer
    /\ normalized = NotNormalized

\* ------------------------------------------------------------ helpers of updateState
\* ensureDefaultChangelist
ensureDefaultChangelist(cls) ==
    IF ~MapHas(cls, "default")
    THEN MapSet(cls, "default",
                [id |-> "default", description |-> "Default changelist",
                 user |-> P4USER, client |-> P4CLIENT, status |-> "pending",
                 date |-> "now", files |-> <<>>, jobs |-> Undefined,
                 hasShelvedFiles |-> Undefined, isRestricted |-> Undefined])
    ELSE MapSet(cls, "default", [MapGet(cls, "default") EXCEPT !.files = <<>>])

\* changelists.forEach(change => change.files = [])
ClearFileLists(cls) ==
    [i \in 1..Len(cls) |-> [cls[i] EXCEPT !.val.files = <<>>]]

\* openedFiles.forEach(f => this.files.set(f.uri.toString(), f))
RECURSIVE InsertOpened(_, _, _)
InsertOpened(fs, list, i) ==
    IF i > Len(list) THEN fs
    ELSE InsertOpened(MapSet(fs, list[i].uri, list[i]), list, i + 1)

\* The field-level merge of a status File into the File already under its key.
MergeStatus(existingFile, statusFile) ==
    [existingFile EXCEPT
        !.status = statusFile.status,
        !.action = statusFile.action,
        !.diffStatus = statusFile.diffStatus,
        !.depotPath = OrElse(existingFile.depotPath, statusFile.depotPath),
        !.clientPath = OrElse(existingFile.clientPath, statusFile.clientPath),
        !.user = Coalesce(existingFile.user, statusFile.user),
        !.client = Coalesce(existingFile.client, statusFile.client),
        !.revision = Coalesce(existingFile.revision, statusFile.revision),
        !.headRevision = Coalesce(existingFile.headRevision, statusFile.headRevision),
        !.haveRevision = Coalesce(existingFile.haveRevision, statusFile.haveRevision),
        !.type = Coalesce(existingFile.type, statusFile.type)]

\* A status merge that files every new File under the default changelist.
RECURSIVE MergeStatusFilesIntoDefault(_, _, _)
MergeStatusFilesIntoDefault(fs, list, i) ==
    IF i > Len(list) THEN fs
    ELSE LET key == list[i].uri
             next == IF MapHas(fs, key)
                     THEN MapSet(fs, key, MergeStatus(MapGet(fs, key), list[i]))
                     ELSE MapSet(fs, key, [list[i] EXCEPT !.changelist = "default"])
         IN MergeStatusFilesIntoDefault(next, list, i + 1)

\* statusFiles.forEach(...): merge into an existing key, insert a new one.
RECURSIVE MergeStatusFiles(_, _, _)
MergeStatusFiles(fs, list, i) ==
    IF i > Len(list) THEN fs
    ELSE LET key == list[i].uri
             next == IF MapHas(fs, key)
                     THEN MapSet(fs, key, MergeStatus(MapGet(fs, key), list[i]))
                     ELSE MapSet(fs, key, list[i])
         IN MergeStatusFiles(next, list, i + 1)

\* An update that replaces a changelist it already holds by the parsed
\* one: the old entry is deleted and the new one set.
RECURSIVE updateChangelistsReplacing(_, _, _)
updateChangelistsReplacing(cls, newChanges, i) ==
    IF i > Len(newChanges) THEN cls
    ELSE updateChangelistsReplacing(
             MapSet(MapDelete(cls, newChanges[i].id), newChanges[i].id, newChanges[i]),
             newChanges, i + 1)

\* updateChangelists: the changelist map after merging the parsed changes.
RECURSIVE updateChangelists(_, _, _)
updateChangelists(cls, newChanges, i) ==
    IF i > Len(newChanges) THEN cls
    ELSE LET change == newChanges[i]
             next == IF MapHas(cls, change.id)
                     THEN MapSet(cls, change.id,
                                 [MapGet(cls, change.id) EXCEPT
                                     !.description = change.description,
                                     !.user = change.user,
                                     !.client = change.client,
                                     !.status = change.status,
                                     !.jobs = change.jobs,
                                     !.date = change.date,
                                     !.hasShelvedFiles = change.hasShelvedFiles,
                                     !.isRestricted = change.isRestricted,
                                     !.files = <<>>])
                     ELSE MapSet(cls, change.id, change)
         IN updateChangelists(next, newChanges, i + 1)

\* updateChangelists: the set of ids it returns.
ReturnedChangeKeys(newChanges) == {newChanges[i].id : i \in 1..Len(newChanges)}

\* The changelists a describe call is made for, in map order.
ShelvedToFetch(cls) ==
    LET sel == SelectSeq(cls, LAMBDA e : e.val.hasShelvedFiles = "true" /\ e.val.status = "pending")
    IN [i \in 1..Len(sel) |-> sel[i].key]

\* A gather that appends each result as it arrives: the call that settled
\* last comes last.
SettledByArrival(promises, last) ==
    LET idx == SelectSeq([k \in 1..Len(promises) |-> k], LAMBDA k : k # last)
    IN [k \in 1..Len(idx) |-> promises[idx[k]]] \o << promises[last] >>

\* await Promise.all(shelvedFilePromises): the results in the order the
\* promises were pushed, whichever call settled last.
Settled(promises, last) == promises

\* A gather that rejects as a whole: one describe without Files loses the
\* Files of all of them.
RECURSIVE FlatAllOrNothing(_, _)
FlatAllOrNothing(promises, i) ==
    IF \E j \in 1..Len(promises) : promises[j].value = <<>> THEN <<>>
    ELSE IF i > Len(promises) THEN <<>>
    ELSE promises[i].value \o FlatAllOrNothing(promises, i + 1)

\* allShelvedFilesNested.flat()
RECURSIVE Flat(_, _)
Flat(promises, i) ==
    IF i > Len(promises) THEN <<>> ELSE promises[i].value \o Flat(promises, i + 1)

\* allShelvedFiles.forEach(...): flag an existing key, insert a new one.
RECURSIVE MergeShelvedFiles(_, _, _)
MergeShelvedFiles(fs, list, i) ==
    IF i > Len(list) THEN fs
    ELSE LET key == list[i].uri
             next == IF MapHas(fs, key)
                     THEN MapSet(fs, key, [MapGet(fs, key) EXCEPT
                                              !.isShelved = "true",
                                              !.shelvedInChangelist = list[i].changelist])
                     ELSE MapSet(fs, key, list[i])
         IN MergeShelvedFiles(next, list, i + 1)

\* A path list built without the Set: one entry per File with a client path.
RECURSIVE AllClientPaths(_, _, _)
AllClientPaths(list, i, acc) ==
    IF i > Len(list) THEN acc
    ELSE LET cp == list[i].clientPath
         IN AllClientPaths(list, i + 1, IF Truthy(cp) THEN Append(acc, cp) ELSE acc)

\* resolveFileUris: the unique non-empty client paths, in first-seen order.
RECURSIVE UniqueClientPaths(_, _, _)
UniqueClientPaths(list, i, acc) ==
    IF i > Len(list) THEN acc
    ELSE LET cp == list[i].clientPath
         IN UniqueClientPaths(list, i + 1,
                IF Truthy(cp) /\ cp \notin SeqRange(acc) THEN Append(acc, cp) ELSE acc)

\* A Promise.all over where calls that reject: one failure loses every path.
ResolvedPathAllOrNothing(res, clientPath) ==
    IF \E i \in 1..Len(res) : res[i].localPath = Null THEN Null
    ELSE res[CHOOSE i \in 1..Len(res) : res[i].clientPath = clientPath].localPath

\* resolvedPathMap.get(clientPath)
ResolvedPath(res, clientPath) ==
    res[CHOOSE i \in 1..Len(res) : res[i].clientPath = clientPath].localPath

\* A resolution loop in which a later File that resolves to a local path
\* already taken replaces the File that holds it.
RECURSIVE ResolveLoopKeepsLast(_, _, _, _)
ResolveLoopKeepsLast(st, list, i, res) ==
    IF i > Len(list)
    THEN SelectSeq(st.files, LAMBDA e : e.key \notin st.unresolvedFiles)
    ELSE LET file == list[i]
             key == file.uri
             localPath == IF Truthy(file.clientPath) THEN ResolvedPath(res, file.clientPath) ELSE Null
             newKey == UriFile(localPath)
             moved == [file EXCEPT !.localPath = localPath, !.uri = newKey]
             drop == [st EXCEPT !.unresolvedFiles = @ \cup {key}]
         IN IF ~Truthy(file.clientPath) \/ ~Truthy(localPath)
            THEN ResolveLoopKeepsLast(drop, list, i + 1, res)
            ELSE ResolveLoopKeepsLast([st EXCEPT
                                          !.files = MapSet(MapDelete(@, key), newKey, moved),
                                          !.resolvedFileKeys = @ \cup {newKey}],
                                      list, i + 1, res)

\* resolveFileUris: the loop over filesToResolve, then the removal of the
\* unresolved keys.  `st` is [files, resolvedFileKeys, unresolvedFiles].
RECURSIVE ResolveLoop(_, _, _, _)
ResolveLoop(st, list, i, res) ==
    IF i > Len(list)
    THEN SelectSeq(st.files, LAMBDA e : e.key \notin st.unresolvedFiles)
    ELSE LET file == list[i]
             key == file.uri
             localPath == IF Truthy(file.clientPath) THEN ResolvedPath(res, file.clientPath) ELSE Null
             newKey == UriFile(localPath)
             moved == [file EXCEPT !.localPath = localPath, !.uri = newKey]
             drop == [st EXCEPT !.unresolvedFiles = @ \cup {key}]
         IN IF ~Truthy(file.clientPath) THEN ResolveLoop(drop, list, i + 1, res)
            ELSE IF ~Truthy(localPath) THEN ResolveLoop(drop, list, i + 1, res)
            ELSE IF newKey \in st.resolvedFileKeys /\ key # newKey
                 THEN ResolveLoop(drop, list, i + 1, res)
            ELSE IF key # newKey
                 THEN ResolveLoop([st EXCEPT
                                      !.files = MapSet(MapDelete(@, key), newKey, moved),
                                      !.resolvedFileKeys = @ \cup {newKey}],
                                  list, i + 1, res)
            ELSE ResolveLoop([st EXCEPT
                                 !.files = IF MapHas(@, key) THEN MapSet(@, key, moved) ELSE @,
                                 !.resolvedFileKeys = @ \cup {key}],
                             list, i + 1, res)

\* A re-association that files every File under the first Changelist of
\* the map, whatever changelist id the File carries.
ReassociateIntoFirst(st, fs, i) ==
    [st EXCEPT !.changelists =
        [n \in 1..Len(@) |->
            IF n = 1 THEN [@[n] EXCEPT !.val.files = [j \in 1..Len(fs) |-> fs[j].val.uri]]
            ELSE @[n]]]

\* The re-association loop: `st` is [changelists, currentChangeKeys].
RECURSIVE Reassociate(_, _, _)
Reassociate(st, fs, i) ==
    IF i > Len(fs) THEN st
    ELSE LET file == fs[i].val
             changeId == file.changelist
             known == MapHas(st.changelists, changeId)
             change == IF known THEN MapGet(st.changelists, changeId)
                       ELSE [id |-> changeId,
                             description |-> "Changelist " \o changeId,
                             user |-> Coalesce(file.user, P4USER),
                             client |-> Coalesce(file.client, P4CLIENT),
                             status |-> "pending", date |-> "now", files |-> <<>>,
                             jobs |-> Undefined, hasShelvedFiles |-> Undefined,
                             isRestricted |-> Undefined]
             linked == IF file.uri \in SeqRange(change.files) THEN change
                       ELSE [change EXCEPT !.files = Append(@, file.uri)]
         IN Reassociate([changelists |-> MapSet(st.changelists, changeId, linked),
                         currentChangeKeys |-> IF known THEN st.currentChangeKeys
                                               ELSE st.currentChangeKeys \cup {changeId}],
                        fs, i + 1)

\* A prune loop that forgets to consult currentChangeKeys.
PruneIgnoresCurrent(cls, previousKeys, currentKeys) ==
    SelectSeq(cls, LAMBDA e : e.key \notin previousKeys)

\* The prune loop.
Prune(cls, previousKeys, currentKeys) ==
    SelectSeq(cls, LAMBDA e : ~(e.key \in previousKeys /\ e.key \notin currentKeys))

\* ------------------------------------------------------------ actions
\* The call log with the result of call i classified.
Answered(log, i, kind) == [log EXCEPT ![i].res = kind]

Call(cmd, arg) == [cmd |-> cmd, arg |-> arg, res |-> "pending"]

\* A guard that turns every request away, cycle in flight or not.
BusyAlways == TRUE

\* A guard that never reports a cycle in flight.
BusyNever == FALSE

\* The single-flight guard at the head of updateState.
Busy == isUpdating

\* A fire() placed ahead of the prune loop.
FireBeforePrune(fs, pruned, unpruned) == Snapshot(fs, unpruned)

\* What the listener reads when _onDidChange.fire() runs: the store as the
\* prune loop left it.
FireSnapshot(fs, pruned, unpruned) == Snapshot(fs, pruned)

\* A catch without the finally block: the busy flag stays set.
AbortKeepsBusy(log) ==
    /\ issued' = log
    /\ outcome' = "failed"
    /\ isUpdating' = TRUE
    /\ running' = running - 1
    /\ pc' = "idle"
    /\ UNCHANGED << files, changelists, fired, currentChangeKeys >>

\* A catch block that fires the change event.
AbortNotifies(log) ==
    /\ issued' = log
    /\ outcome' = "failed"
    /\ isUpdating' = FALSE
    /\ running' = running - 1
    /\ pc' = "idle"
    /\ fired' = Append(fired, [snap |-> Snapshot(files, changelists), heard |-> ~disposed])
    /\ UNCHANGED << files, changelists, currentChangeKeys >>

\* A catch block with its commented-out lines enabled: both maps are
\* cleared and the change event is fired.
AbortClearsState(log) ==
    /\ issued' = log
    /\ outcome' = "failed"
    /\ isUpdating' = FALSE
    /\ running' = running - 1
    /\ pc' = "idle"
    /\ files' = <<>>
    /\ changelists' = <<>>
    /\ fired' = Append(fired, [snap |-> Snapshot(<<>>, <<>>), heard |-> ~disposed])
    /\ UNCHANGED currentChangeKeys

\* catch + finally: the cycle is abandoned where it stands.
Abort(log) ==
    /\ issued' = log
    /\ outcome' = "failed"
    /\ isUpdating' = FALSE
    /\ running' = running - 1
    /\ pc' = "idle"
    /\ UNCHANGED << files, changelists, fired, currentChangeKeys >>

\* Re-associate, prune, fire, finally: the tail of updateState, run on the
\* file map `fs`, the changelist map `cls` and currentChangeKeys `cur`.
Finalize(fs, cls, cur) ==
    LET st == Reassociate([changelists |-> cls, currentChangeKeys |-> cur], fs, 1)
        pruned == Prune(st.changelists, previousChangeKeys, st.currentChangeKeys)
    IN /\ files' = fs
       /\ changelists' = pruned
       /\ currentChangeKeys' = st.currentChangeKeys
       /\ fired' = Append(fired, [snap |-> FireSnapshot(fs, pruned, st.changelists),
                                  heard |-> ~disposed])
       /\ outcome' = "completed"
       /\ isUpdating' = FALSE
       /\ running' = running - 1
       /\ pc' = "idle"

\* A path resolution started on the map as it was before the shelved Files
\* were merged into it.
ResolveStageBeforeMerge(fs, cls, cur, log) ==
    LET toResolve == MapValues(files)
        unique == UniqueClientPaths(toResolve, 1, <<>>)
    IN /\ filesToResolve' = toResolve
       /\ IF Len(unique) = 0
          THEN /\ resolutions' = <<>>
               /\ issued' = log
               /\ Finalize(files, cls, cur)
          ELSE /\ resolutions' = [i \in 1..Len(unique) |->
                                    [clientPath |-> unique[i], done |-> FALSE, localPath |-> Null]]
               /\ issued' = log \o [i \in 1..Len(unique) |-> Call("where", unique[i])]
               /\ files' = files
               /\ changelists' = cls
               /\ currentChangeKeys' = cur
               /\ pc' = "where"
               /\ UNCHANGED << fired, outcome, isUpdating, running >>

\* resolveFileUris up to its await: with no client path to query it returns
\* at once and the tail runs; otherwise one where call per unique path is made.
ResolveStage(fs, cls, cur, log) ==
    LET toResolve == MapValues(fs)
        unique == UniqueClientPaths(toResolve, 1, <<>>)
    IN /\ filesToResolve' = toResolve
       /\ IF Len(unique) = 0
          THEN /\ resolutions' = <<>>
               /\ issued' = log
               /\ Finalize(fs, cls, cur)
          ELSE /\ resolutions' = [i \in 1..Len(unique) |->
                                    [clientPath |-> unique[i], done |-> FALSE, localPath |-> Null]]
               /\ issued' = log \o [i \in 1..Len(unique) |-> Call("where", unique[i])]
               /\ files' = fs
               /\ changelists' = cls
               /\ currentChangeKeys' = cur
               /\ pc' = "where"
               /\ UNCHANGED << fired, outcome, isUpdating, running >>

\* updateState(): dropped by the guard, or accepted: snapshot, clear, ensure
\* the default changelist, call `p4 opened`.
UpdateState ==
    IF Busy
    THEN /\ droppedCall' = TRUE
         /\ UNCHANGED << normalizer, normalized >>
         /\ UNCHANGED << files, changelists, isUpdating, disposed, pc, locals,
                         issued, fired, outcome, startStore, running >>
    ELSE /\ isUpdating' = TRUE
         /\ running' = running + 1
         /\ previousChangeKeys' = MapKeys(changelists) \ {"default"}
         /\ files' = <<>>
         /\ changelists' = ensureDefaultChangelist(ClearFileLists(changelists))
         /\ issued' = << Call("opened", "") >>
         /\ pc' = "opened"
         /\ currentChangeKeys' = {}
         /\ openedFiles' = <<>>
         /\ statusFiles' = <<>>
         /\ pendingChanges' = <<>>
         /\ shelvedPromises' = <<>>
         /\ filesToResolve' = <<>>
         /\ resolutions' = <<>>
         /\ fired' = <<>>
         /\ outcome' = "running"
         /\ startStore' = Snapshot(files, changelists)
         /\ droppedCall' = FALSE
         /\ UNCHANGED << normalizer, normalized >>
         /\ UNCHANGED disposed

\* `p4 opened` returns or throws.
OpenedReturns(result) ==
    /\ pc = "opened"
    /\ droppedCall' = FALSE
    /\ UNCHANGED << normalizer, normalized >>
    /\ UNCHANGED << disposed, previousChangeKeys, statusFiles, pendingChanges,
                    shelvedPromises, filesToResolve, resolutions, startStore >>
    /\ IF result.kind = "throw"
       THEN /\ Abort(Answered(issued, Len(issued), ResKind(result)))
            /\ UNCHANGED openedFiles
       ELSE /\ openedFiles' = processOpened(result)
            /\ files' = InsertOpened(files, processOpened(result), 1)
            /\ issued' = Append(Answered(issued, Len(issued), ResKind(result)), Call("status", ""))
            /\ pc' = "status"
            /\ UNCHANGED << changelists, currentChangeKeys, fired, outcome, isUpdating, running >>

\* `p4 status` returns or throws.
StatusReturns(result) ==
    /\ pc = "status"
    /\ droppedCall' = FALSE
    /\ UNCHANGED << normalizer, normalized >>
    /\ UNCHANGED << disposed, previousChangeKeys, openedFiles, pendingChanges,
                    shelvedPromises, filesToResolve, resolutions, startStore >>
    /\ IF result.kind = "throw"
       THEN /\ Abort(Answered(issued, Len(issued), ResKind(result)))
            /\ UNCHANGED statusFiles
       ELSE /\ statusFiles' = processStatus(result)
            /\ files' = MergeStatusFiles(files, processStatus(result), 1)
            /\ issued' = Append(Answered(issued, Len(issued), ResKind(result)), Call("changes", ""))
            /\ pc' = "changes"
            /\ UNCHANGED << changelists, currentChangeKeys, fired, outcome, isUpdating, running >>

\* `p4 changes` returns or throws; with no shelved changelist to describe
\* the cycle runs on into resolveFileUris.
ChangesReturns(result) ==
    /\ pc = "changes"
    /\ droppedCall' = FALSE
    /\ UNCHANGED << normalizer, normalized >>
    /\ UNCHANGED << disposed, previousChangeKeys, openedFiles, statusFiles, startStore >>
    /\ IF result.kind = "throw"
       THEN /\ Abort(Answered(issued, Len(issued), ResKind(result)))
            /\ UNCHANGED << pendingChanges, shelvedPromises, filesToResolve, resolutions >>
       ELSE LET parsed == processChanges(result)
                cls == updateChangelists(changelists, parsed, 1)
                cur == ReturnedChangeKeys(parsed)
                ids == ShelvedToFetch(cls)
                log == Answered(issued, Len(issued), ResKind(result))
            IN /\ pendingChanges' = parsed
               /\ IF Len(ids) = 0
                  THEN /\ shelvedPromises' = <<>>
                       /\ ResolveStage(files, cls, cur, log)
                  ELSE /\ shelvedPromises' = [i \in 1..Len(ids) |->
                                                [id |-> ids[i], done |-> FALSE, value |-> <<>>]]
                       /\ issued' = log \o [i \in 1..Len(ids) |-> Call("describe", ids[i])]
                       /\ changelists' = cls
                       /\ currentChangeKeys' = cur
                       /\ pc' = "describe"
                       /\ UNCHANGED << files, filesToResolve, resolutions, fired,
                                       outcome, isUpdating, running >>

\* The index in the call log of the first call of `cmd` with argument `arg`.
CallIndex(log, cmd, arg) ==
    CHOOSE i \in 1..Len(log) : log[i].cmd = cmd /\ log[i].arg = arg

\* One `p4 describe` returns or throws; when the last one has, Promise.all
\* resolves and the shelved Files are merged in promise order.
DescribeReturns(i, result) ==
    /\ pc = "describe"
    /\ i \in 1..Len(shelvedPromises)
    /\ ~shelvedPromises[i].done
    /\ droppedCall' = FALSE
    /\ UNCHANGED << normalizer, normalized >>
    /\ UNCHANGED << disposed, previousChangeKeys, openedFiles, statusFiles,
                    pendingChanges, startStore >>
    /\ LET id == shelvedPromises[i].id
           value == IF result.kind = "throw" THEN <<>> ELSE processDescribe(result, id)
           promises == [shelvedPromises EXCEPT ![i] = [id |-> id, done |-> TRUE, value |-> value]]
           log == Answered(issued, CallIndex(issued, "describe", id), ResKind(result))
       IN /\ shelvedPromises' = promises
          /\ IF \A j \in 1..Len(promises) : promises[j].done
             THEN ResolveStage(MergeShelvedFiles(files, Flat(Settled(promises, i), 1), 1),
                               changelists, currentChangeKeys, log)
             ELSE /\ issued' = log
                  /\ UNCHANGED << files, changelists, currentChangeKeys, pc,
                                  filesToResolve, resolutions, fired, outcome,
                                  isUpdating, running >>

\* One `p4 where` returns or throws; when the last one has, the paths are
\* applied and the tail of the cycle runs.
WhereReturns(i, result) ==
    /\ pc = "where"
    /\ i \in 1..Len(resolutions)
    /\ ~resolutions[i].done
    /\ droppedCall' = FALSE
    /\ UNCHANGED << normalizer, normalized >>
    /\ UNCHANGED << disposed, previousChangeKeys, openedFiles, statusFiles,
                    pendingChanges, shelvedPromises, filesToResolve, startStore >>
    /\ LET clientPath == resolutions[i].clientPath
           res == [resolutions EXCEPT ![i] = [clientPath |-> clientPath, done |-> TRUE,
                                               localPath |-> p4where(clientPath, result)]]
           log == Answered(issued, CallIndex(issued, "where", clientPath), result.kind)
       IN /\ resolutions' = res
          /\ issued' = log
          /\ IF \A j \in 1..Len(res) : res[j].done
             THEN Finalize(ResolveLoop([files |-> files, resolvedFileKeys |-> {},
                                        unresolvedFiles |-> {}],
                                       filesToResolve, 1, res),
                           changelists, currentChangeKeys)
             ELSE UNCHANGED << files, changelists, currentChangeKeys, pc, fired,
                               outcome, isUpdating, running >>

\* dispose(): the emitter is disposed and both maps are cleared.
Dispose ==
    /\ ~disposed
    /\ disposed' = TRUE
    /\ files' = <<>>
    /\ changelists' = <<>>
    /\ droppedCall' = FALSE
    /\ UNCHANGED << normalizer, normalized >>
    /\ UNCHANGED << isUpdating, pc, locals, issued, fired, outcome, startStore, running >>

Next ==
    \/ UpdateState
    \/ \E result \in TaggedResults(OpenedPool) : OpenedReturns(result)
    \/ \E result \in TaggedResults(StatusPool) : StatusReturns(result)
    \/ \E result \in TaggedResults(ChangesPool) : ChangesReturns(result)
    \/ \E i \in 1..Len(shelvedPromises), result \in DescribeResults : DescribeReturns(i, result)
    \/ \E i \in 1..Len(resolutions) :
          \E result \in WhereResults(resolutions[i].clientPath) : WhereReturns(i, result)

\* The manager while it is alive.
Spec == Init /\ [][Next]_vars

\* The manager over its whole life: dispose() may come at any point, also
\* while a cycle is suspended, and updateState may be called after it.
LifeNext ==
    \/ Next
    \/ Dispose

LifeSpec == Init /\ [][LifeNext]_vars

\* The manager as its provider uses it: the provider disposes the manager in
\* its own dispose() and is dropped by the extension, so no refresh request
\* is made after dispose(); the executor calls of a cycle in flight still
\* return.
TeardownNext ==
    \/ ~disposed /\ UpdateState
    \/ \E result \in TaggedResults(OpenedPool) : OpenedReturns(result)
    \/ \E result \in TaggedResults(StatusPool) : StatusReturns(result)
    \/ \E result \in TaggedResults(ChangesPool) : ChangesReturns(result)
    \/ \E i \in 1..Len(shelvedPromises), result \in DescribeResults : DescribeReturns(i, result)
    \/ \E i \in 1..Len(resolutions) :
          \E result \in WhereResults(resolutions[i].clientPath) : WhereReturns(i, result)
    \/ Dispose

TeardownSpec == Init /\ [][TeardownNext]_vars

\* The answers to a tagged query that steer a cycle differently: a throw,
\* an output without parsed records, the first MaxRecs records of the pool.
CoarseResults(pool) ==
    {Thrown, Returned("", "", NoParsed),
     Returned("x", "", ArrayParsed(SubSeq(pool, 1, IF MaxRecs < Len(pool) THEN MaxRecs ELSE Len(pool))))}

\* Some pending executor call returns or throws.
Respond ==
    \/ \E result \in CoarseResults(OpenedPool) : OpenedReturns(result)
    \/ \E result \in CoarseResults(StatusPool) : StatusReturns(result)
    \/ \E result \in CoarseResults(ChangesPool) : ChangesReturns(result)
    \/ \E i \in 1..Len(shelvedPromises), result \in DescribeResults : DescribeReturns(i, result)
    \/ \E i \in 1..Len(resolutions) :
          \E result \in WhereResults(resolutions[i].clientPath) : WhereReturns(i, result)

FairNext ==
    \/ UpdateState
    \/ Respond

\* The live manager with an executor whose calls all come back: while a call
\* is pending, one of the pending calls eventually returns or throws.
FairSpec == Init /\ [][FairNext]_vars /\ WF_vars(Respond)

\* `p4 changes` records of two pending changelists that both hold shelved files.
ShelvedChangesPool ==
    << ChangesRecord("5", "five", "1"),
       ChangesRecord("7", "seven ", "1") >>

\* What a describe call can come back with, unusable outputs included.
FanDescribeResults ==
    DescribeResults \cup
        {Returned("", "", NoParsed),
         Returned("x", "", ScalarParsed([obj |-> TRUE, entries |-> <<DescribeEntry("//d/a", "/ws/a")>>]))}

\* The live manager on a workspace with two shelved changelists: the cycles
\* in which several describe calls and several where calls are pending at
\* the same time and settle in any order.
FanOutNext ==
    \/ UpdateState
    \/ \E result \in CoarseResults(OpenedPool) : OpenedReturns(result)
    \/ \E result \in CoarseResults(StatusPool) : StatusReturns(result)
    \/ \E result \in TaggedResults(ShelvedChangesPool) : ChangesReturns(result)
    \/ \E i \in 1..Len(shelvedPromises), result \in FanDescribeResults : DescribeReturns(i, result)
    \/ \E i \in 1..Len(resolutions) :
          \E result \in WhereResults(resolutions[i].clientPath) : WhereReturns(i, result)

FanOutSpec == Init /\ [][FanOutNext]_vars

\* The decoded `p4 describe` records the fixtures use.
DescribePool ==
    << [obj |-> TRUE, entries |-> <<DescribeEntry("//d/a", Undefined)>>],
       [obj |-> TRUE, entries |-> <<DescribeEntry("//d/b", "/ws/b")>>],
       [obj |-> TRUE, entries |-> <<DescribeEntry("//d/a", "/ws/a"),
                                    DescribeEntry("//d/b", Undefined)>>],
       [obj |-> TRUE, entries |-> <<DescribeEntry("//d/a", Undefined),
                                    DescribeEntry(Undefined, "/ws/x"),
                                    DescribeEntry("//d/b", "/ws/b")>>],
       [obj |-> TRUE, entries |-> <<>>],
       [obj |-> FALSE, entries |-> <<>>] >>

\* The lists of at most `n` records of `pool`, in any order, repeats included.
Lists(pool, n) == UNION {[1..k -> SeqRange(pool)] : k \in 0..n}

\* The decoded values a parse method can be handed: nothing, one record
\* that is not in a list, a list of records.
ParsedValues(pool) ==
    {NoParsed} \cup {ScalarParsed(pool[i]) : i \in 1..Len(pool)}
               \cup {ArrayParsed(list) : list \in Lists(pool, MaxRecs)}

\* `p4 status` records as the parse method's tests hand them over: with and
\* without depotFile and clientFile, one of each kind of status.
StatusParsePool ==
    StatusPool \o
    << StatusRecord("//d/c", Undefined, "needsAdd", Undefined, "5", Undefined),
       StatusRecord(Undefined, "/ws/d", "needsDelete", "edit", Undefined, "text"),
       StatusRecord(Undefined, Undefined, "needsAdd", Undefined, Undefined, Undefined),
       StatusRecord("//d/e", "/ws/e", Undefined, Undefined, Undefined, "text") >>

\* `p4 changes` records with and without change and desc.
ChangesParsePool ==
    ChangesPool \o
    << ChangesRecord(Undefined, "no id", Undefined),
       ChangesRecord("9", "", "1") >>

\* The direct calls of the four parse methods.
NormalizerCalls ==
    {[fn |-> "opened", p4Data |-> p, changelistId |-> ""] : p \in ParsedValues(OpenedPool)}
    \cup {[fn |-> "status", p4Data |-> p, changelistId |-> ""] : p \in ParsedValues(StatusParsePool)}
    \cup {[fn |-> "changes", p4Data |-> p, changelistId |-> ""] : p \in ParsedValues(ChangesParsePool)}
    \cup {[fn |-> "describe", p4Data |-> p, changelistId |-> id] :
              p \in ParsedValues(DescribePool), id \in {"5", "7"}}

\* The parse method runs on its argument and returns or throws.
Normalize ==
    /\ normalizer.fn # "none"
    /\ ~normalized.done
    /\ LET r == CASE normalizer.fn = "opened" -> parseOpenedOutput(normalizer.p4Data)
                  [] normalizer.fn = "status" -> parseStatusOutput(normalizer.p4Data)
                  [] normalizer.fn = "changes" -> parseChangesOutput(normalizer.p4Data)
                  [] normalizer.fn = "describe" ->
                         parseDescribeOutput(normalizer.p4Data, normalizer.changelistId)
       IN normalized' = [done |-> TRUE, threw |-> r.threw, value |-> r.value]
    /\ UNCHANGED << files, changelists, isUpdating, disposed, pc, locals, issued,
                    fired, outcome, startStore, droppedCall, running, normalizer >>

ParseInit ==
    /\ Constructed
    /\ normalizer \in NormalizerCalls
    /\ normalized = NotNormalized

ParseNext == Normalize

\* One parse method called directly on one decoded value, as the unit
\* tests call it.
ParseSpec == ParseInit /\ [][ParseNext]_vars

\* `p4 status` records of files that are opened in a numbered changelist,
\* by this user or by another one, and of one that is not opened.
OwnedStatusPool ==
    << StatusRecord("//d/c", "/ws/c", "edit", "edit", "5", "text"),
       [StatusRecord("//d/e", "/ws/e", "edit", Undefined, Undefined, "text")
            EXCEPT !.otherChange = "7"],
       StatusRecord("//d/a", "/ws/a", "modifiedNotOpened", Undefined, Undefined, Undefined) >>

\* The live manager on a workspace whose `p4 status` reports files with
\* and without a changelist of their own.
StatusMergeNext ==
    \/ UpdateState
    \/ \E result \in CoarseResults(OpenedPool) : OpenedReturns(result)
    \/ \E result \in TaggedResults(OwnedStatusPool) : StatusReturns(result)
    \/ \E result \in CoarseResults(ChangesPool) : ChangesReturns(result)
    \/ \E i \in 1..Len(shelvedPromises), result \in DescribeResults : DescribeReturns(i, result)
    \/ \E i \in 1..Len(resolutions) :
          \E result \in WhereResults(resolutions[i].clientPath) : WhereReturns(i, result)

StatusMergeSpec == Init /\ [][StatusMergeNext]_vars

\* ------------------------------------------------------------ p4where, called directly
\* Output lines of `p4 where`, each split at its spaces: mappings of /ws/a
\* and of //d/a, mappings to something that is no path, a mapping of another
\* file, a local path with a space in it, a line cut short.
WhereLines ==
    { <<"//d/x", "/ws/a", "/abs/a">>,
      <<"//d/a", "/ws/zz", "/abs/a2">>,
      <<"//d/x", "/ws/a", "-unmapped">>,
      <<"//d/x", "/ws/a", "/dev/null">>,
      <<"//d/x", "/ws/a", "">>,
      <<"//d/q", "/ws/q", "/abs/q">>,
      <<"//d/x", "/ws/a", "/abs/my", "file">>,
      <<"//d/x", "/ws/a">> }

\* The calls of p4where: a query path and what execute('where', [path]) did.
WhereCalls ==
    {[fn |-> "p4where", path |-> path,
      result |-> [kind |-> "throw", stdout |-> "", stderr |-> "connect failed", lines |-> <<>>]] :
         path \in {"/ws/a", "//d/a", ""}}
    \cup {[fn |-> "p4where", path |-> path, result |-> WhereReturned(err, lines)] :
              path \in {"/ws/a", "//d/a", ""},
              err \in {"", "not in client view", "warning"},
              lines \in UNION {[1..k -> WhereLines] : k \in 0..MaxLines}}

NotResolved == [done |-> FALSE, value |-> Null]

\* p4where returns the local path or null.
Where ==
    /\ ~normalized.done
    /\ normalized' = [done |-> TRUE, value |-> p4where(normalizer.path, normalizer.result)]
    /\ UNCHANGED << files, changelists, isUpdating, disposed, pc, locals, issued,
                    fired, outcome, startStore, droppedCall, running, normalizer >>

WhereInit ==
    /\ Constructed
    /\ normalizer \in WhereCalls
    /\ normalized = NotResolved

WhereNext == Where

\* One call of p4where.
WhereSpec == WhereInit /\ [][WhereNext]_vars

\* ------------------------------------------------------------ the executor
\* What marshal.load(buffer) does on a non-empty buffer: it throws or it
\* returns the decoded value.  The library decides which; the model takes
\* both as inputs.
MarshalThrew == [threw |-> TRUE, value |-> NoParsed]
MarshalLoaded(value) == [threw |-> FALSE, value |-> value]

\* The `null` that parseTaggedOutput returns for an empty output.
NullParsed == [tag |-> "null", items |-> <<>>]

\* A decoder without the guard for the empty output.
parseTaggedOutputUnguarded(stdout, load) == load

\* PerforceService.parseTaggedOutput: `load` is what marshal.load does on
\* the buffer made of stdout.
parseTaggedOutput(stdout, load) ==
    IF stdout = "" THEN [threw |-> FALSE, value |-> NullParsed]
    ELSE load

\* PerforceService.execute of a tagged command: `run` is what the p4
\* process did, [rejected, stdout, stderr, load].
execute(run) ==
    IF run.rejected THEN Thrown
    ELSE IF run.stdout # ""
         THEN LET decoded == parseTaggedOutput(run.stdout, run.load)
              IN Returned(run.stdout, run.stderr,
                          IF decoded.threw THEN NoParsed ELSE decoded.value)
         ELSE Returned(run.stdout, run.stderr, NoParsed)

\* What marshal.load can do on the output of a command whose records come
\* from `pool`.
Loads(pool) ==
    {MarshalThrew,
     MarshalLoaded(ScalarParsed(pool[1])),
     MarshalLoaded(ArrayParsed(<<>>)),
     MarshalLoaded(ArrayParsed(SubSeq(pool, 1, IF MaxRecs < Len(pool) THEN MaxRecs ELSE Len(pool))))}

\* The runs of one tagged command: the process fails, or it ends with an
\* empty or non-empty stdout and stderr.
Runs(fn, pool) ==
    {[fn |-> fn, changelistId |-> "5",
      run |-> [rejected |-> TRUE, stdout |-> "", stderr |-> "connect failed", load |-> MarshalThrew]]}
    \cup {[fn |-> fn, changelistId |-> "5",
           run |-> [rejected |-> FALSE, stdout |-> out, stderr |-> err, load |-> load]] :
              out \in {"", "x"}, err \in {"", "warning"}, load \in Loads(pool)}

ExecutorCalls ==
    Runs("opened", OpenedPool) \cup Runs("status", StatusPool)
        \cup Runs("changes", ChangesPool) \cup Runs("describe", DescribePool)

NotExecuted ==
    [stage |-> "none", decoded |-> MarshalThrew, result |-> Thrown, records |-> <<>>]

\* parseTaggedOutput called on the output of the run.
Decode ==
    /\ normalized.stage = "none"
    /\ ~normalizer.run.rejected
    /\ normalized' = [normalized EXCEPT
                         !.stage = "decoded",
                         !.decoded = parseTaggedOutput(normalizer.run.stdout, normalizer.run.load)]
    /\ UNCHANGED << files, changelists, isUpdating, disposed, pc, locals, issued,
                    fired, outcome, startStore, droppedCall, running, normalizer >>

\* execute() returns its P4Result or throws.
Execute ==
    /\ normalized.stage = "none"
    /\ normalized' = [normalized EXCEPT !.stage = "executed",
                                        !.result = execute(normalizer.run)]
    /\ UNCHANGED << files, changelists, isUpdating, disposed, pc, locals, issued,
                    fired, outcome, startStore, droppedCall, running, normalizer >>

\* processP4Result on the P4Result that execute() returned.
Process ==
    /\ normalized.stage = "executed"
    /\ normalized.result.kind = "return"
    /\ normalized' = [normalized EXCEPT
           !.stage = "processed",
           !.records = CASE normalizer.fn = "opened" -> processOpened(normalized.result)
                         [] normalizer.fn = "status" -> processStatus(normalized.result)
                         [] normalizer.fn = "changes" -> processChanges(normalized.result)
                         [] normalizer.fn = "describe" ->
                                processDescribe(normalized.result, normalizer.changelistId)]
    /\ UNCHANGED << files, changelists, isUpdating, disposed, pc, locals, issued,
                    fired, outcome, startStore, droppedCall, running, normalizer >>

ExecuteInit ==
    /\ Constructed
    /\ normalizer \in ExecutorCalls
    /\ normalized = NotExecuted

ExecuteNext ==
    \/ Decode
    \/ Execute
    \/ Process

\* One tagged command run through the executor and processP4Result.
ExecuteSpec == ExecuteInit /\ [][ExecuteNext]_vars

\* ------------------------------------------------------------ properties
\* C1: after every completed cycle, whatever store it started from, every
\* File's changelist id is the key of a Changelist present in the store.
C1_EveryFileHasItsChangelist ==
    outcome = "completed" =>
        \A i \in 1..Len(files) : MapHas(changelists, files[i].val.changelist)

\* C2: at most one cycle is running at any time; an updateState call that
\* arrives while one is running issues no query, leaves the store and the
\* suspended cycle untouched and fires nothing, and the step that ends a
\* cycle leaves no call pending and nothing queued to start on its own.
C2_SingleFlight ==
    [][ /\ running' <= 1
        /\ (isUpdating /\ droppedCall') =>
              UNCHANGED << files, changelists, issued, fired, pc, locals,
                           isUpdating, outcome, running >>
        /\ (pc # "idle" /\ pc' = "idle") =>
              /\ ~isUpdating'
              /\ \A i \in 1..Len(issued') : issued'[i].res # "pending"
        /\ (pc = "idle" /\ pc' # "idle") => (~isUpdating /\ Len(issued') = 1) ]_vars

\* C2 witness: a call was dropped while the cycle waits for `p4 where`.
C2_DroppedWhileRunning ==
    droppedCall /\ pc = "where" /\ running = 1 /\ isUpdating

\* C3: every cycle that starts ends with the engine idle and the busy flag
\* cleared, completed or failed, and whenever the engine is idle the guard
\* lets the next updateState call in.
C3_EveryCycleEndsIdle ==
    /\ (pc # "idle") ~> (pc = "idle" /\ ~isUpdating /\ outcome \in {"completed", "failed"})
    /\ [](pc = "idle" => ~isUpdating)
    /\ [][(pc # "idle" /\ pc' = "idle") => outcome' \in {"completed", "failed"}]_vars

\* C3 witness: a cycle failed at its third query and the engine is idle.
C3_FailedCycleEnded ==
    /\ pc = "idle" /\ ~isUpdating /\ outcome = "failed"
    /\ Len(issued) = 3 /\ issued[3].res = "throw"

\* C4: a completed cycle fired exactly once, and the listener read the store
\* as the prune loop left it; a running or failed cycle, and a dropped call,
\* fired nothing.
C4_OneNotificationPerCompletedCycle ==
    /\ outcome = "completed" =>
          /\ Len(fired) = 1
          /\ fired[1].heard
          /\ fired[1].snap = Snapshot(files, changelists)
    /\ outcome # "completed" => fired = <<>>
    /\ droppedCall => fired = <<>>

\* C4 witness: a completed cycle that pruned a changelist and fired once.
C4_FiredAfterPrune ==
    /\ outcome = "completed" /\ Len(fired) = 1
    /\ startStore.changeKeys \ MapKeys(changelists) # {}

\* C5: after a cycle that a primary query aborted, the Files and the
\* changelist file lists the store held when the cycle started are still
\* in the store.
C5_FailedCycleKeepsPriorStore ==
    outcome = "failed" =>
        /\ startStore.fileKeys \subseteq MapKeys(files)
        /\ startStore.assoc \subseteq Snapshot(files, changelists).assoc

\* C6: once the executor has thrown for the opened, status or changes
\* query, that call is the last the cycle issued, no path was resolved, no
\* File was linked to a changelist, no changelist was pruned and nothing
\* was fired.
C6_PrimaryFailureAbortsCycle ==
    \A i \in 1..Len(issued) :
        (issued[i].cmd \in {"opened", "status", "changes"} /\ issued[i].res = "throw") =>
            /\ i = Len(issued)
            /\ pc = "idle" /\ outcome = "failed"
            /\ filesToResolve = <<>> /\ resolutions = <<>>
            /\ \A j \in 1..Len(files) : files[j].val.localPath = Undefined
            /\ Snapshot(files, changelists).assoc = {}
            /\ startStore.changeKeys \subseteq MapKeys(changelists)
            /\ fired = <<>>

\* C6 witness: `p4 status` threw after `p4 opened` had put a File in the
\* map, in a cycle that started with changelists a prune could remove.
C6_StatusThrewMidCycle ==
    /\ Len(issued) = 2 /\ issued[2].res = "throw" /\ outcome = "failed"
    /\ Len(files) > 0
    /\ startStore.changeKeys \ {"default"} # {}

\* C7: a primary query whose output has no parsed value, or a value the
\* parser rejects, contributes no record, and the cycle goes on: the next
\* call is issued or the cycle completes and fires; only a throw of the
\* executor makes a cycle fail.
C7_UnusableOutputIsEmptySource ==
    /\ (Len(issued) >= 1 /\ issued[1].res = "unusable") => openedFiles = <<>>
    /\ (Len(issued) >= 2 /\ issued[2].res = "unusable") => statusFiles = <<>>
    /\ (Len(issued) >= 3 /\ issued[3].res = "unusable") => pendingChanges = <<>>
    /\ \A i \in 1..Len(issued) :
          issued[i].res = "unusable" =>
              \/ i < Len(issued) /\ outcome # "failed"
              \/ i < Len(issued) /\ issued[Len(issued)].res = "throw"
              \/ outcome = "completed" /\ Len(fired) = 1
    /\ outcome = "failed" => issued[Len(issued)].res = "throw"

\* C7 witness: all three primary queries came back unusable and the cycle
\* completed and fired.
C7_AllSourcesUnusable ==
    /\ outcome = "completed" /\ Len(fired) = 1 /\ Len(issued) = 3
    /\ \A i \in 1..3 : issued[i].res = "unusable"

\* C8: in every reachable state exactly one Changelist has id "default".
C8_ExactlyOneDefault ==
    Cardinality({i \in 1..Len(changelists) : changelists[i].key = "default"}) = 1

\* C9: a completed cycle leaves exactly the changelists it saw (at its
\* start, in the changes result, or as a placeholder it synthesized) minus
\* those that are not "default", were in the store at its start and were
\* neither returned by `p4 changes` nor synthesized; so a changelist known
\* before, not returned and without a File is gone, and "default" stays.
C9_PruneRemovesExactlyTheStale ==
    outcome = "completed" =>
        LET start == startStore.changeKeys
            returned == ReturnedChangeKeys(pendingChanges)
            synthesized == {files[i].val.changelist : i \in 1..Len(files)}
                               \ (start \cup {"default"} \cup returned)
            seen == {"default"} \cup start \cup returned \cup synthesized
            stale == (start \ {"default"}) \ (returned \cup synthesized)
        IN /\ MapKeys(changelists) = seen \ stale
           /\ "default" \in MapKeys(changelists)
           /\ \A k \in start \ {"default"} :
                 (k \notin returned /\ \A i \in 1..Len(files) : files[i].val.changelist # k)
                     => k \notin MapKeys(changelists)

\* C9 witness: of two changelists known before the cycle, the one `p4
\* changes` returned again is kept and the other is pruned.
C9_OneKeptOnePruned ==
    /\ outcome = "completed"
    /\ {"5", "7"} \subseteq startStore.changeKeys
    /\ ReturnedChangeKeys(pendingChanges) = {"5"}
    /\ "5" \in MapKeys(changelists) /\ "7" \notin MapKeys(changelists)

\* C10: when `p4 opened` and `p4 status` each report the same file once and
\* its path resolves, the completed cycle holds one File for it, with
\* status, action and diffStatus from the status record, the changelist
\* from the opened record, and every other field from the opened record
\* unless that left it absent.
C10_StatusMergesIntoOpened ==
    (/\ outcome = "completed"
     /\ Len(openedFiles) = 1 /\ Len(statusFiles) = 1
     /\ openedFiles[1].clientPath = statusFiles[1].clientPath
     /\ openedFiles[1].depotPath = statusFiles[1].depotPath
     /\ \E j \in 1..Len(resolutions) :
           /\ resolutions[j].clientPath = openedFiles[1].clientPath
           /\ Truthy(resolutions[j].localPath))
    => LET o == openedFiles[1]
           st == statusFiles[1]
           same == SelectSeq(files, LAMBDA e : e.val.clientPath = o.clientPath)
           f == same[1].val
       IN /\ Len(same) = 1
          /\ f.status = st.status
          /\ f.action = st.action
          /\ f.diffStatus = st.diffStatus
          /\ f.changelist = o.changelist
          /\ f.depotPath = o.depotPath
          /\ f.user = Coalesce(o.user, st.user)
          /\ f.client = Coalesce(o.client, st.client)
          /\ f.revision = Coalesce(o.revision, st.revision)
          /\ f.headRevision = Coalesce(o.headRevision, st.headRevision)
          /\ f.haveRevision = Coalesce(o.haveRevision, st.haveRevision)
          /\ f.type = Coalesce(o.type, st.type)

\* C11: when `p4 opened` returns records with pairwise distinct depot paths
\* and workspace paths, every workspace path resolves, and status, changes
\* and describe contribute nothing, the completed cycle holds exactly one
\* File per opened record, keyed by its resolved local path, with the
\* record's action and listed under the record's changelist.
C11_OneFilePerOpenedRecord ==
    (/\ outcome = "completed"
     /\ statusFiles = <<>> /\ pendingChanges = <<>>
     /\ \A j \in 1..Len(shelvedPromises) : shelvedPromises[j].value = <<>>
     /\ \A i, j \in 1..Len(openedFiles) :
           i # j => /\ openedFiles[i].depotPath # openedFiles[j].depotPath
                    /\ openedFiles[i].clientPath # openedFiles[j].clientPath
     /\ \A j \in 1..Len(resolutions) : Truthy(resolutions[j].localPath))
    => /\ Len(files) = Len(openedFiles)
       /\ \A i \in 1..Len(openedFiles) :
             LET o == openedFiles[i]
                 key == UriFile(LocalOf(o.clientPath))
             IN /\ MapHas(files, key)
                /\ MapGet(files, key).action = o.action
                /\ MapGet(files, key).changelist = o.changelist
                /\ <<o.changelist, key>> \in Snapshot(files, changelists).assoc

\* C12: after a completed cycle no File has an empty workspace path or an
\* unresolved local path, and every File is keyed by its resolved local path.
C12_OnlyResolvedFilesRemain ==
    outcome = "completed" =>
        \A i \in 1..Len(files) :
            /\ Truthy(files[i].val.clientPath)
            /\ Truthy(files[i].val.localPath)
            /\ files[i].key = UriFile(files[i].val.localPath)

\* C13: at every point where the store can be read (every state of a cycle
\* and every fire) each File sits under the one key that is its own uri,
\* and the step that inserts resolved-path keys leaves none of the
\* placeholder keys it started from in the map.
C13_KeyMigrationIsAtomic ==
    [][ /\ \A i \in 1..Len(files') : files'[i].val.uri = files'[i].key
        /\ \A i, j \in 1..Len(files') : files'[i].key = files'[j].key => i = j
        /\ \A i \in 1..Len(files') :
              Truthy(files'[i].val.localPath) =>
                  files'[i].key = UriFile(files'[i].val.localPath)
        /\ (\E i \in 1..Len(files') :
               Truthy(files'[i].val.localPath) /\ ~MapHas(files, files'[i].key))
           => /\ MapKeys(files') \cap MapKeys(files) = {}
              /\ \A n \in 1..Len(fired') : fired'[n].snap.fileKeys = MapKeys(files')
      ]_vars

\* C13 witness: a File that waited under its placeholder key is now under
\* its resolved-path key.
C13_MigratedFile ==
    /\ outcome = "completed"
    /\ \E j \in 1..Len(filesToResolve) :
          /\ filesToResolve[j].uri = "perforce:/ws/a"
          /\ MapHas(files, UriFile(LocalOf("/ws/a")))
          /\ ~MapHas(files, "perforce:/ws/a")

\* C14: in one cycle `p4 where` is called exactly once for each distinct
\* non-empty workspace path among the Files in the map, and for nothing else.
C14_OneWhereCallPerPath ==
    LET calls == SelectSeq(issued, LAMBDA c : c.cmd = "where")
        args == {calls[i].arg : i \in 1..Len(calls)}
        PathsOf(list) == {list[i].clientPath : i \in 1..Len(list)} \ {"", Undefined, Null}
    IN /\ \A i, j \in 1..Len(calls) : calls[i].arg = calls[j].arg => i = j
       /\ pc = "where" => args = PathsOf(MapValues(files))
       /\ outcome = "completed" => args = PathsOf(filesToResolve)
       /\ pc \in {"opened", "status", "changes", "describe"} => calls = <<>>

\* C14 witness: two Files share the workspace path /ws/a and one `p4 where`
\* call is pending for it.
C14_SharedPathOneCall ==
    /\ pc = "where"
    /\ Cardinality({i \in 1..Len(files) : files[i].val.clientPath = "/ws/a"}) = 2
    /\ Cardinality({i \in 1..Len(issued) :
                       issued[i].cmd = "where" /\ issued[i].arg = "/ws/a"}) = 1

\* C15: when `p4 where` fails for a workspace path, the completed cycle
\* holds no File with that path, still holds a File under the resolved
\* local path of every path whose call succeeded, and has fired once.
C15_WhereFailureIsLocal ==
    (outcome = "completed" /\ Len(resolutions) > 0) =>
        /\ Len(fired) = 1
        /\ \A j \in 1..Len(issued) :
              issued[j].cmd = "where" =>
                  LET path == issued[j].arg
                      key == UriFile(LocalOf(path))
                  IN IF issued[j].res = "throw"
                     THEN \A i \in 1..Len(files) : files[i].val.clientPath # path
                     ELSE /\ MapHas(files, key)
                          /\ MapGet(files, key).clientPath = path
                          /\ MapGet(files, key).localPath = LocalOf(path)

\* C15 witness: of two where calls one threw and one returned, and the File
\* of the path that resolved is in the store.
C15_OneFailedOneResolved ==
    /\ outcome = "completed" /\ Len(resolutions) = 2 /\ Len(files) = 1
    /\ \E j, k \in 1..Len(issued) :
          /\ issued[j].cmd = "where" /\ issued[j].res = "throw"
          /\ issued[k].cmd = "where" /\ issued[k].res = "return"

\* C16: a describe call that throws or whose output is unusable contributes
\* no shelved File; the Files of the other describe calls are still merged
\* into the map; no describe outcome fails the cycle, which completes and
\* fires once.
C16_DescribeFailureIsLocal ==
    /\ \A j \in 1..Len(shelvedPromises) :
          LET call == issued[CallIndex(issued, "describe", shelvedPromises[j].id)]
          IN /\ call.res \in {"throw", "unusable"} => shelvedPromises[j].value = <<>>
             /\ (pc \in {"where", "idle"} /\ outcome # "failed") =>
                   \A n \in 1..Len(shelvedPromises[j].value) :
                       \E e \in SeqRange(filesToResolve) :
                           /\ e.uri = shelvedPromises[j].value[n].uri
                           /\ e.isShelved = "true"
    /\ (\E i \in 1..Len(issued) : issued[i].cmd = "describe") => outcome # "failed"
    /\ outcome = "completed" => Len(fired) = 1

\* C16 witness: of two describe calls one threw and the other returned a
\* shelved File, which is in the completed store.
C16_OneDescribeFailed ==
    /\ outcome = "completed" /\ Len(shelvedPromises) = 2
    /\ \E j, k \in 1..Len(issued) :
          /\ issued[j].cmd = "describe" /\ issued[j].res = "throw"
          /\ issued[k].cmd = "describe" /\ issued[k].res = "array"
    /\ \E i \in 1..Len(files) : files[i].val.isShelved = "true"

\* The place of a command in the order of the stages of a cycle.
StageOf(cmd) ==
    CASE cmd = "opened" -> 1 [] cmd = "status" -> 2 [] cmd = "changes" -> 3
      [] cmd = "describe" -> 4 [] cmd = "where" -> 5

\* C17: the stages of a cycle are strictly sequential: calls are issued in
\* stage order and a call is issued only when every call of the earlier
\* stages has been answered; the status call is issued on the map holding
\* the opened Files, the changes call on the map after the status merge, the
\* describe calls after the changelist map holds every returned changelist,
\* the where calls on the map after every describe result is merged, and
\* the notification after every where call has been answered.
C17_StagesAreSequential ==
    LET base == InsertOpened(<<>>, openedFiles, 1)
        merged == MergeStatusFiles(base, statusFiles, 1)
        shelved == MergeShelvedFiles(merged, Flat(shelvedPromises, 1), 1)
    IN /\ \A i, j \in 1..Len(issued) :
             /\ i < j => StageOf(issued[i].cmd) <= StageOf(issued[j].cmd)
             /\ StageOf(issued[i].cmd) < StageOf(issued[j].cmd) => issued[i].res # "pending"
       /\ pc = "status" => files = base
       /\ pc = "changes" => files = merged
       /\ pc = "describe" =>
             /\ files = merged
             /\ \A n \in 1..Len(pendingChanges) : MapHas(changelists, pendingChanges[n].id)
             /\ \A n \in 1..Len(shelvedPromises) : MapHas(changelists, shelvedPromises[n].id)
       /\ pc = "where" =>
             /\ \A n \in 1..Len(shelvedPromises) : shelvedPromises[n].done
             /\ files = shelved
             /\ filesToResolve = MapValues(shelved)
       /\ outcome = "completed" =>
             /\ \A i \in 1..Len(issued) : issued[i].res # "pending"
             /\ \A n \in 1..Len(resolutions) : resolutions[n].done
             /\ \A n \in 1..Len(shelvedPromises) : shelvedPromises[n].done

\* C17 witness: the where calls are pending after a describe call brought
\* a shelved File into the map.
C17_WherePendingAfterDescribe ==
    /\ pc = "where"
    /\ \E n \in 1..Len(shelvedPromises) : Len(shelvedPromises[n].value) > 0
    /\ \E i \in 1..Len(issued) : issued[i].cmd = "where" /\ issued[i].res = "pending"

\* C18: after a completed cycle with concurrent describe or where calls the
\* store is the one their answers produce when taken in the order the calls
\* were made, whichever call was answered last: the file map and every
\* changelist's file list are a function of the answers indexed by call.
C18_SettlementOrderDoesNotMatter ==
    (outcome = "completed" /\ Len(shelvedPromises) + Len(resolutions) > 0) =>
        LET base == MergeStatusFiles(InsertOpened(<<>>, openedFiles, 1), statusFiles, 1)
            merged == MergeShelvedFiles(base, Flat(shelvedPromises, 1), 1)
            final == IF Len(resolutions) = 0 THEN merged
                     ELSE ResolveLoop([files |-> merged, resolvedFileKeys |-> {},
                                       unresolvedFiles |-> {}],
                                      MapValues(merged), 1, resolutions)
            assoc == Reassociate([changelists |-> <<>>, currentChangeKeys |-> {}],
                                 final, 1).changelists
        IN /\ files = final
           /\ \A i \in 1..Len(changelists) :
                 changelists[i].val.files =
                     IF MapHas(assoc, changelists[i].key)
                     THEN MapGet(assoc, changelists[i].key).files ELSE <<>>

\* C18 witness: a completed cycle in which two describe calls returned the
\* same depot file and two where calls were made.
C18_TwoDescribesTwoWheres ==
    /\ outcome = "completed"
    /\ Len(shelvedPromises) = 2 /\ Len(resolutions) = 2
    /\ Len(shelvedPromises[1].value) = 1 /\ Len(shelvedPromises[2].value) = 1
    /\ shelvedPromises[1].value[1].uri = shelvedPromises[2].value[1].uri

\* C19: the file map after a completed cycle is determined by the cycle's
\* executor responses alone: it is the map that the same cycle, given the same
\* answer to every query, builds from the empty store.
C19_FileMapFromResponsesAlone ==
    outcome = "completed" =>
        LET base == MergeStatusFiles(InsertOpened(<<>>, openedFiles, 1), statusFiles, 1)
            fresh == updateChangelists(ensureDefaultChangelist(<<>>), pendingChanges, 1)
            ids == ShelvedToFetch(fresh)
            answer(id) == shelvedPromises[CHOOSE n \in 1..Len(shelvedPromises) :
                                              shelvedPromises[n].id = id]
            promises == [n \in 1..Len(ids) |-> answer(ids[n])]
            merged == MergeShelvedFiles(base, Flat(promises, 1), 1)
            unique == UniqueClientPaths(MapValues(merged), 1, <<>>)
            final == IF Len(unique) = 0 THEN merged
                     ELSE ResolveLoop([files |-> merged, resolvedFileKeys |-> {},
                                       unresolvedFiles |-> {}],
                                      MapValues(merged), 1, resolutions)
        IN files = final

C21_IncompleteRecordsAreSkipped ==
    (normalized.done /\ normalizer.p4Data.tag = "array"
                     /\ normalizer.fn \in {"opened", "status", "changes"}) =>
        LET has(x) == x \notin {Undefined, Null, ""}
            complete(record) ==
                CASE normalizer.fn = "opened" ->
                         has(record.depotFile) /\ has(record.action) /\ has(record.clientFile)
                  [] normalizer.fn = "status" ->
                         has(record.clientFile) \/ has(record.depotFile)
                  [] normalizer.fn = "changes" ->
                         has(record.change) /\ has(record.desc)
            kept == SelectSeq(normalizer.p4Data.items, complete)
            from(entry, record) ==
                CASE normalizer.fn = "opened" ->
                         entry.depotPath = record.depotFile /\ entry.clientPath = record.clientFile
                  [] normalizer.fn = "status" ->
                         /\ entry.depotPath = Coalesce(record.depotFile, "")
                         /\ entry.clientPath = Coalesce(record.clientFile, "")
                  [] normalizer.fn = "changes" -> entry.id = record.change
        IN /\ ~normalized.threw
           /\ Len(normalized.value) = Len(kept)
           /\ \A k \in 1..Len(kept) : from(normalized.value[k], kept[k])

\* C21 witness: a parse method has run on a list of two records of which
\* the first lacks a required field, and returned the second.
C21_SkippedOneKeptOne ==
    /\ normalized.done /\ normalizer.p4Data.tag = "array"
    /\ normalizer.fn = "status"
    /\ Len(normalizer.p4Data.items) = 2
    /\ normalizer.p4Data.items[1].clientFile = Undefined
    /\ normalizer.p4Data.items[1].depotFile = Undefined
    /\ Len(normalized.value) = 1
    /\ normalized.value[1].clientPath = "/ws/d"

\* C22: decoding an empty output does not throw and gives the explicit
\* no-value result, never what a decode error gives (a throw); the
\* executor returns normally on an empty output, without decoded records,
\* and the query contributes zero records.
C22_EmptyOutputIsNoValue ==
    /\ (normalized.stage = "decoded" /\ normalizer.run.stdout = "") =>
           ~normalized.decoded.threw /\ normalized.decoded.value = NullParsed
    /\ (normalized.stage = "decoded" /\ normalizer.run.stdout # "" /\ normalizer.run.load.threw) =>
           normalized.decoded.threw
    /\ (normalized.stage \in {"executed", "processed"}
            /\ ~normalizer.run.rejected /\ normalizer.run.stdout = "") =>
           /\ normalized.result.kind = "return"
           /\ normalized.result.parsedOutput = NoParsed
    /\ (normalized.stage = "processed" /\ normalizer.run.stdout = "") =>
           normalized.records = <<>>

\* C22 witness: a command that ended with an empty output has been
\* executed and processed.
C22_EmptyOutputProcessed ==
    /\ normalized.stage = "processed"
    /\ normalizer.run.stdout = "" /\ normalizer.run.stderr = ""

\* C24: a describe call is issued only for a changelist that this cycle's
\* `p4 changes` answer lists as pending and holding shelved files.
C24_DescribeOnlyForReportedChangelists ==
    \A i \in 1..Len(issued) :
        issued[i].cmd = "describe" =>
            \E n \in 1..Len(pendingChanges) :
                /\ pendingChanges[n].id = issued[i].arg
                /\ pendingChanges[n].hasShelvedFiles = "true"
                /\ pendingChanges[n].status = "pending"

\* C25: once the shelved Files are merged, a file that the opened or the
\* status phase put in the map and that a describe answer also reports is
\* one File entry, with isShelved set, the shelving changelist's id, and the
\* status and action it had; a shelved file not in the map before is one new
\* shelved File.
C25_ShelvedFileIsOneEntry ==
    (pc = "where" \/ (pc = "idle" /\ outcome = "completed")) =>
        LET shelved == Flat(shelvedPromises, 1)
            earlier == SeqRange(openedFiles) \cup SeqRange(statusFiles)
            entries(depotPath) ==
                {i \in 1..Len(filesToResolve) : filesToResolve[i].depotPath = depotPath}
        IN \A n \in 1..Len(shelved) :
               LET g == shelved[n]
                   before == {f \in earlier : f.depotPath = g.depotPath}
               IN /\ Cardinality(entries(g.depotPath)) = 1
                  /\ \A i \in entries(g.depotPath) :
                        /\ filesToResolve[i].isShelved = "true"
                        /\ \E m \in 1..Len(shelved) :
                              /\ shelved[m].depotPath = g.depotPath
                              /\ filesToResolve[i].shelvedInChangelist = shelved[m].changelist
                        /\ before # {} =>
                              \E f \in before : /\ filesToResolve[i].status = f.status
                                                /\ filesToResolve[i].action = f.action

\* C26 as stated: a status File whose placeholder key the opened phase did
\* not put in the map is in the map, after the status merge, under the
\* default changelist.
C26_NewStatusFileIsInDefault ==
    pc = "changes" =>
        LET opened == InsertOpened(<<>>, openedFiles, 1)
        IN \A n \in 1..Len(statusFiles) :
               ~MapHas(opened, statusFiles[n].uri) =>
                   /\ MapHas(files, statusFiles[n].uri)
                   /\ MapGet(files, statusFiles[n].uri).changelist = "default"

\* C26, amended: such a File is in the map under the changelist its status
\* record names: the record's change, else its otherChange, and the default
\* changelist only when the record has neither.
C26_NewStatusFileKeepsItsChangelist ==
    pc = "changes" =>
        LET opened == InsertOpened(<<>>, openedFiles, 1)
        IN \A n \in 1..Len(statusFiles) :
               ~MapHas(opened, statusFiles[n].uri) =>
                   /\ MapHas(files, statusFiles[n].uri)
                   /\ \E k \in 1..Len(OwnedStatusPool) :
                         LET record == OwnedStatusPool[k]
                         IN /\ record.clientFile = statusFiles[n].clientPath
                            /\ MapGet(files, statusFiles[n].uri).changelist =
                                   IF record.change # Undefined THEN record.change
                                   ELSE IF record.otherChange # Undefined THEN record.otherChange
                                   ELSE "default"

\* C26 witness: the status merge has inserted a File that is opened in
\* changelist 5 and a File that has no changelist of its own.
C26_InsertedOwnedAndUnowned ==
    /\ pc = "changes"
    /\ \E i, j \in 1..Len(files) :
          /\ files[i].val.changelist = "5" /\ files[i].val.clientPath = "/ws/c"
          /\ files[j].val.changelist = "default" /\ files[j].val.clientPath = "/ws/a"

\* C27: the step that merges the `p4 changes` answer and then waits for the
\* describe calls changes only the changelist map: the file map is as it
\* was, every changelist held before is still the entry at its place (and
\* untouched when the answer does not list it), the listed ones carry the
\* answer's data, the ones not held before are added, and every
\* changelist's file list is empty.
C27_ChangesMergeTouchesOnlyChangelists ==
    [][ (pc = "changes" /\ pc' = "describe") =>
            LET returned == {pendingChanges'[n].id : n \in 1..Len(pendingChanges')}
            IN /\ files' = files
               /\ Len(changelists') >= Len(changelists)
               /\ \A i \in 1..Len(changelists) :
                     /\ changelists'[i].key = changelists[i].key
                     /\ changelists[i].key \notin returned => changelists'[i] = changelists[i]
               /\ MapKeys(changelists') = MapKeys(changelists) \cup returned
               /\ \A i \in 1..Len(changelists') : changelists'[i].val.files = <<>>
               /\ \A n \in 1..Len(pendingChanges') :
                     \E m \in n..Len(pendingChanges') :
                         /\ pendingChanges'[m].id = pendingChanges'[n].id
                         /\ MapGet(changelists', pendingChanges'[n].id).description =
                                pendingChanges'[m].description
      ]_vars

\* C27 witness: the answer listed changelist 5, held since an earlier cycle
\* together with changelist 7, and the describe calls are pending.
C27_UpdatedOneHeldBefore ==
    /\ pc = "describe"
    /\ {"5", "7"} \subseteq previousChangeKeys
    /\ \E n \in 1..Len(pendingChanges) : pendingChanges[n].id = "5"
    /\ \A n \in 1..Len(pendingChanges) : pendingChanges[n].id # "7"

\* C29 as stated: p4where returns the local path of the first output line
\* whose depot or workspace component equals the query path, and null when
\* no line matches.
C29_FirstMatchingLine ==
    normalized.done =>
        LET lines == normalizer.result.lines
            matching == {i \in 1..Len(lines) :
                            /\ Len(lines[i]) >= 3
                            /\ (lines[i][1] = normalizer.path \/ lines[i][2] = normalizer.path)}
        IN normalized.value =
               IF matching = {} THEN Null
               ELSE JoinFrom(lines[CHOOSE i \in matching : \A j \in matching : i <= j], 3)

\* C29, amended: p4where returns the local path of the first output line
\* whose depot or workspace component equals the query path and whose local
\* path is usable (not empty, not /dev/null, not starting with a dash); it
\* returns null when there is no such line, when the query path is empty,
\* when the call fails, and when stderr says the path is not in the client
\* view or names no file.
C29_FirstUsableMatchingLine ==
    normalized.done =>
        LET lines == normalizer.result.lines
            usable == {i \in 1..Len(lines) :
                          /\ Len(lines[i]) >= 3
                          /\ (lines[i][1] = normalizer.path \/ lines[i][2] = normalizer.path)
                          /\ JoinFrom(lines[i], 3) \notin {"", "/dev/null", "-unmapped"}}
        IN normalized.value =
               IF \/ normalizer.path = ""
                  \/ normalizer.result.kind = "throw"
                  \/ normalizer.result.stderr \in {"not in client view", "no such file(s)"}
                  \/ usable = {}
               THEN Null
               ELSE JoinFrom(lines[CHOOSE i \in usable : \A j \in usable : i <= j], 3)

\* C29 witness: the first line that names the query path maps it to
\* /dev/null, the second to a path, and p4where returned the second's.
C29_SkippedAnUnusableMatch ==
    /\ normalized.done
    /\ normalizer.path = "/ws/a"
    /\ normalizer.result.lines = << <<"//d/x", "/ws/a", "/dev/null">>,
                                    <<"//d/x", "/ws/a", "/abs/a">> >>
    /\ normalized.value = "/abs/a"

\* C28: the placeholder key of a File parsed from an opened or a status
\* record is made of the record's depot path when it has one and of its
\* workspace path only when it has none.
C28_PlaceholderKeyFromDepotPath ==
    (normalized.done /\ normalizer.p4Data.tag = "array"
                     /\ normalizer.fn \in {"opened", "status"}) =>
        LET has(x) == x \notin {Undefined, Null, ""}
            complete(record) ==
                IF normalizer.fn = "opened"
                THEN has(record.depotFile) /\ has(record.action) /\ has(record.clientFile)
                ELSE has(record.clientFile) \/ has(record.depotFile)
            kept == SelectSeq(normalizer.p4Data.items, complete)
        IN \A k \in 1..Len(kept) :
               /\ k <= Len(normalized.value)
               /\ normalized.value[k].uri =
                      "perforce:" \o (IF has(kept[k].depotFile) THEN kept[k].depotFile
                                      ELSE kept[k].clientFile)

\* C30: parseStatusOutput sets the action by the status: modifiedNotOpened
\* gives modify-local, needsAdd add-local, needsDelete delete-local, any
\* other status the record's own action, "unknown" when it has none; and it
\* sets diffStatus to "unresolved" for a status that contains "Resolve" and
\* leaves it unset for every other status.
C30_StatusTable ==
    (normalized.done /\ normalizer.p4Data.tag = "array" /\ normalizer.fn = "status") =>
        LET has(x) == x \notin {Undefined, Null, ""}
            kept == SelectSeq(normalizer.p4Data.items,
                              LAMBDA record : has(record.clientFile) \/ has(record.depotFile))
        IN /\ Len(normalized.value) = Len(kept)
           /\ \A k \in 1..Len(kept) :
                 LET record == kept[k]
                     entry == normalized.value[k]
                     status == IF record.status \in {Undefined, Null} THEN "unknown"
                               ELSE record.status
                 IN /\ entry.status = status
                    /\ entry.action =
                           CASE status = "modifiedNotOpened" -> "modify-local"
                             [] status = "needsAdd" -> "add-local"
                             [] status = "needsDelete" -> "delete-local"
                             [] OTHER -> IF record.action \in {Undefined, Null} THEN "unknown"
                                         ELSE record.action
                    /\ entry.diffStatus =
                           IF status \in {"openNeedsResolve", "notOpened+needsResolve", "needsResolve"}
                           THEN "unresolved" ELSE Undefined

\* C30 witness: parseStatusOutput has run on a record that needs resolving
\* and on one that needs deleting although it carries an action of its own.
C30_ResolveAndDeleteParsed ==
    /\ normalized.done /\ normalizer.fn = "status" /\ normalizer.p4Data.tag = "array"
    /\ Len(normalized.value) = 2
    /\ normalizer.p4Data.items[1].status = "openNeedsResolve"
    /\ normalized.value[1].diffStatus = "unresolved"
    /\ normalizer.p4Data.items[2].status = "needsDelete"
    /\ normalizer.p4Data.items[2].action = "edit"
    /\ normalized.value[2].action = "delete-local"

\* C31: parseDescribeOutput, given a list whose first element is a record,
\* returns one shelved File per index 0..k-1 in index order, k being the
\* first index without a depotFile<k>; what follows the gap is ignored, and
\* each File has the queried id as changelist and shelvedInChangelist and
\* isShelved true.
C31_DescribeStopsAtFirstGap ==
    (/\ normalized.done
     /\ normalizer.fn = "describe"
     /\ normalizer.p4Data.tag = "array"
     /\ Len(normalizer.p4Data.items) > 0
     /\ normalizer.p4Data.items[1].obj)
    => LET es == normalizer.p4Data.items[1].entries
           k == CHOOSE n \in 0..Len(es) :
                    /\ \A j \in 1..n : es[j].depotFile # Undefined
                    /\ n = Len(es) \/ es[n + 1].depotFile = Undefined
       IN /\ ~normalized.threw
          /\ Len(normalized.value) = k
          /\ \A j \in 1..k :
                 /\ normalized.value[j].depotPath = es[j].depotFile
                 /\ normalized.value[j].uri = UriParse("perforce-shelved:" \o es[j].depotFile)
                 /\ normalized.value[j].changelist = normalizer.changelistId
                 /\ normalized.value[j].shelvedInChangelist = normalizer.changelistId
                 /\ normalized.value[j].isShelved = "true"

\* A describe record with a gap at index 1 and a file after it was parsed
\* into the one File before the gap.
C31_ParsedUpToAGap ==
    /\ normalized.done
    /\ normalizer.fn = "describe"
    /\ normalizer.p4Data.tag = "array"
    /\ Len(normalizer.p4Data.items) > 0
    /\ normalizer.p4Data.items[1].obj
    /\ Len(normalizer.p4Data.items[1].entries) = 3
    /\ normalizer.p4Data.items[1].entries[2].depotFile = Undefined
    /\ Len(normalized.value) = 1

C33_FileListsPartitionTheFileMap ==
    outcome = "completed" =>
        /\ \A i \in 1..Len(changelists) :
               LET list == changelists[i].val.files
               IN /\ SeqRange(list) =
                        {files[j].key : j \in {n \in 1..Len(files) :
                                                   files[n].val.changelist = changelists[i].val.id}}
                  /\ Cardinality(SeqRange(list)) = Len(list)
        /\ \A i, k \in 1..Len(changelists) :
               i # k => SeqRange(changelists[i].val.files)
                            \cap SeqRange(changelists[k].val.files) = {}

\* A completed cycle left two Changelists with a File each.
C33_TwoChangelistsWithFiles ==
    /\ outcome = "completed"
    /\ \E i, k \in 1..Len(changelists) :
           /\ i # k
           /\ Len(changelists[i].val.files) > 0
           /\ Len(changelists[k].val.files) > 0

\* C34 (as claimed): when a refresh request returns to its caller, the store
\* reflects a reconciliation cycle that started no earlier than the request;
\* so no request returns while the cycle that was already running when it
\* arrived is still unfinished.
C34_ReturnedRequestSeesAFreshCycle ==
    ~(droppedCall /\ isUpdating /\ outcome = "running")

\* C34 (amended): a refresh request returns either at the end of the cycle
\* it ran itself (completed or aborted, busy flag cleared), or at once,
\* dropped by the single-flight guard, and then a cycle that started before
\* the request is still running and the store is as that cycle has left it
\* so far.
C34_ReturnIsOwnCycleOrDrop ==
    /\ droppedCall => (isUpdating /\ outcome = "running" /\ pc # "idle")
    /\ (~droppedCall /\ outcome \in {"completed", "failed"}) => (~isUpdating /\ pc = "idle")

\* A request was dropped and has returned while the older cycle, with Files
\* already in the store, still waits for `p4 changes`.
C34_DroppedWhileOlderCycleRuns ==
    /\ droppedCall
    /\ pc = "changes"
    /\ Len(files) > 0

\* C35: after a cycle that a primary query aborted, no File of the file map
\* sits under a placeholder key: every File there has a resolved local
\* path and is keyed by it.
C35_AbortLeavesNoPlaceholderKey ==
    outcome = "failed" =>
        \A i \in 1..Len(files) :
            /\ Truthy(files[i].val.localPath)
            /\ files[i].key = UriFile(files[i].val.localPath)

\* C36: a cycle that a primary query aborted removed no Changelist: every
\* changelist id the store held when the cycle started is still a key of
\* the changelist map after the abort.
C36_AbortRemovesNoChangelist ==
    outcome = "failed" => startStore.changeKeys \subseteq MapKeys(changelists)

\* A cycle that started with a numbered changelist in the store, got its
\* opened Files and was then aborted by a later primary query.
C36_AbortedWithChangelistsHeld ==
    /\ outcome = "failed"
    /\ startStore.changeKeys \ {"default"} # {}
    /\ Len(issued) >= 2

\* C37: when Files of one cycle resolve to the same local path, the store
\* of the completed cycle holds exactly one File for that path, and it is
\* the one that came first in the file map (insertion order: opened, then
\* status, then shelved); no state of the store has two Files with one
\* resolved local path.
C37_FirstFileOfAPathIsKept ==
    /\ \A i, j \in 1..Len(files) :
           (i # j /\ Truthy(files[i].val.localPath))
               => files[i].val.localPath # files[j].val.localPath
    /\ (outcome = "completed" /\ Len(resolutions) > 0) =>
           \A r \in 1..Len(resolutions) :
               LET path == resolutions[r].localPath
                   sameLocal == {c \in 1..Len(resolutions) : resolutions[c].localPath = path}
                   cands == {n \in 1..Len(filesToResolve) :
                                \E c \in sameLocal :
                                    filesToResolve[n].clientPath = resolutions[c].clientPath}
                   first == CHOOSE n \in cands : \A m \in cands : n <= m
               IN (Truthy(path) /\ cands # {}) =>
                      /\ MapHas(files, UriFile(path))
                      /\ MapGet(files, UriFile(path)) =
                             [filesToResolve[first] EXCEPT !.localPath = path,
                                                           !.uri = UriFile(path)]

\* An opened File and a File that only `p4 status` reported resolved to one
\* local path, and the completed cycle kept the opened one.
C37_OpenedKeptOverStatus ==
    /\ outcome = "completed"
    /\ Len(filesToResolve) = 2
    /\ filesToResolve[1].clientPath = filesToResolve[2].clientPath
    /\ filesToResolve[1].action = "edit"
    /\ filesToResolve[2].status = "modifiedNotOpened"
    /\ Len(files) = 1
    /\ files[1].val.action = "edit"
    /\ Truthy(files[1].val.localPath)

\* C38: after dispose() the file map and the changelist map stay empty,
\* also when a cycle was suspended on an executor call at the moment
\* dispose() was called.  (The other half of the claim, that no listener
\* hears a notification after dispose(), is what `heard` records in `fired`.)
C38_DisposedStoreStaysEmpty ==
    disposed => (files = <<>> /\ changelists = <<>>)

====
